---- MODULE Spec2Model ----
(***************************************************************************)
(* Travel budget estimation.                                               *)
(*                                                                         *)
(* Two programs are modelled:                                              *)
(*   - BudgetEstimation.calculate_budget (src/utils/budget_estimation.py), *)
(*     the itinerary walk, one action per statement group, under Spec;     *)
(*   - BudgetEstimator (src/budget_estimation.py), one action per public   *)
(*     method call on one estimator object, under SpecEstimator.           *)
(*                                                                         *)
(* Money in calculate_budget is an exact rational kept as an integer count *)
(* of 1/Unit dollars; money in BudgetEstimator is kept in integer          *)
(* hundredths (cents), the precision round(x, 2) produces.                 *)
(***************************************************************************)
EXTENDS Integers, Sequences, FiniteSets, TLC

(***************************************************************************)
(* Bounds of the model.                                                    *)
(***************************************************************************)
\* largest total_days passed to calculate_budget
MaxDays == 4
\* largest number of travellers of a location
MaxPersons == 2
\* largest number of slots in the first day plan of the first location
MaxSlots == 2
\* largest number of locations in locations_data
MaxLocations == 2
\* largest number of entries of an itinerary passed to BudgetEstimator
MaxEntries == 3

(***************************************************************************)
(* Arithmetic helpers.                                                     *)
(***************************************************************************)
Max(a, b) == IF a >= b THEN a ELSE b

Abs(a) == IF a >= 0 THEN a ELSE -a

RECURSIVE Gcd(_, _)
Gcd(a, b) == IF b = 0 THEN a ELSE Gcd(b, a % b)

RECURSIVE LcmUpTo(_)
LcmUpTo(n) == IF n <= 1 THEN 1 ELSE LET l == LcmUpTo(n - 1) IN (l * n) \div Gcd(l, n)

\* The money unit of calculate_budget: one dollar is Unit units.  A 5% or 10%
\* adjustment needs twentieths, the division by the remaining days of the
\* only day the walk processes needs a multiple of every day count.
Unit == 20 * LcmUpTo(MaxDays)

Dollars(n) == n * Unit

\* Python's true division a / b of two exact amounts (b > 0), to the model's
\* unit; exact whenever b divides a, which the choice of Unit guarantees on
\* the day the walk processes.
TrueDiv(a, b) == IF a >= 0 THEN a \div b ELSE -((-a) \div b)

\* round-half-even of the rational a / b (b # 0), as round(x, 2) and the
\* ".2f" format do on a value known to hundredths' precision.
RoundDiv(a, b) ==
    LET n == IF b > 0 THEN a ELSE -a
        d == Abs(b)
        q == n \div d
        r == n % d
    IN  IF 2 * r < d THEN q
        ELSE IF 2 * r > d THEN q + 1
        ELSE IF q % 2 = 0 THEN q ELSE q + 1

(***************************************************************************)
(* BudgetEstimation: the price tables set by __init__.                     *)
(***************************************************************************)
\* 'random' maps to the list of price points it is sampled from
att_action_cost ==
    [free |-> {0}, low |-> {500}, medium |-> {1000}, high |-> {1500},
     random |-> {0, 500, 1000, 1500}]

discount_locations ==
    {"Toronto", "New York", "San Francisco", "Las Vegas", "Los Angeles",
     "Paris", "London", "Tokyo", "Seoul", "Singapore"}

rental_car_prices ==
    [economy_car |-> 25, medium_car |-> 35, standard_suv |-> 60,
     large_suv |-> 90, full_size_car |-> 40]

train_costs == 100
bus_costs == 30
flight_costs == 150

hotel_costs == [low |-> 80, medium |-> 150, high |-> 300]

restaurant_costs == [low |-> 10, medium |-> 30, high |-> 60]

\* the list choice() samples a car class from when rental_car is 'random'
RandomCarClasses ==
    {"economy_car", "medium_car", "standard_suv", "large_suv", "full_size_car"}

\* the floor of the remaining budget per day
MinDailyBudget == 100

\* format_cost: "app" followed by the amount with two decimals; the amount
\* is kept as the number of hundredths printed
format_cost(cost) == [prefix |-> "app", hundredths |-> RoundDiv(cost * 100, Unit)]

(***************************************************************************)
(* calculate_budget: the inputs.                                           *)
(***************************************************************************)
Slot(category, content, already, duration) ==
    [content_category_name |-> category, content |-> content,
     already_slot |-> already, duration |-> duration]

\* the slot kinds a day plan is built from: every branch of the dispatch, a
\* transport mode and a category no branch prices, and slots already priced
PricedSlots ==
    {Slot("accommodation", "Grand Hotel", FALSE, 0),
     Slot("transport", "rental picks up", FALSE, 2),
     Slot("transport", "flight", FALSE, 0),
     Slot("transport", "train", FALSE, 0),
     Slot("transport", "bus", FALSE, 0),
     Slot("food", "Chez Paul", FALSE, 0),
     Slot("attraction", "City Museum", FALSE, 0)}

UnpricedSlots ==
    {Slot("transport", "taxi", FALSE, 0),
     Slot("shopping", "Old Market", FALSE, 0),
     Slot("accommodation", "Grand Hotel", TRUE, 0),
     Slot("transport", "rental picks up", TRUE, 2),
     Slot("food", "Chez Paul", TRUE, 0)}

AllSlots == PricedSlots \cup UnpricedSlots

\* the slots of the day plans that vary every other input
FewSlots ==
    {Slot("accommodation", "Grand Hotel", FALSE, 0),
     Slot("food", "Chez Paul", FALSE, 0),
     Slot("transport", "flight", TRUE, 0)}

SeqsUpTo(S, n) == UNION {[1..k -> S] : k \in 0..n}

Options(car, hotel, restaurant, attraction) ==
    [rental_car |-> car, hotel |-> hotel, restaurant |-> restaurant,
     attraction |-> attraction]

\* CostOptions() as constructed by default
DefaultOptions == Options("medium_car", "medium", "medium", "medium")

\* cost options with a tier outside the enumerated set of one category
BadTierOptions ==
    {Options("premium", "medium", "medium", "medium"),
     Options("medium_car", "premium", "medium", "medium"),
     Options("medium_car", "medium", "premium", "medium"),
     Options("medium_car", "medium", "medium", "premium")}

GoodTierOptions ==
    {DefaultOptions,
     Options("random", "low", "high", "random"),
     Options("large_suv", "high", "low", "free")}

\* a city of discount_locations and one outside it
Cities == {"Paris", "Hanoi"}

\* starting budgets, in dollars
StartBudgets == {40, 400, 1000}

\* what the days after the first, and the locations after the first, hold
LaterDayPlans == {<<>>, <<Slot("food", "Chez Paul", FALSE, 0)>>}

\* locations_data: n locations of td days each.  The first location has
\* p travellers in city c and day plan `first` on day 0; every other day of
\* every location holds `later`, and the later locations are other cities
\* with one more traveller.
LocationsData(n, td, p, c, first, later) ==
    [l \in 1..n |->
        [persons |-> IF l = 1 THEN p ELSE p + 1,
         city |-> IF l = 1 THEN c ELSE IF l % 2 = 0 THEN "Tokyo" ELSE "Oslo",
         detailed_plan |->
            [d \in 1..td |-> IF l = 1 /\ d = 1 THEN first ELSE later]]]

(***************************************************************************)
(* calculate_budget: the state.                                            *)
(***************************************************************************)
VARIABLES
    cost_options,         \* self.cost_options
    locations_data,       \* parameter
    total_days,           \* parameter
    starting_budget,      \* the value of parameter budget at the call
    budget,               \* the accumulator (parameter budget, reassigned)
    budget_before,        \* history: budget before the last step ran
    pc,                   \* position in calculate_budget
    loc,                  \* index of `location` in locations_data (1-based)
    day,                  \* loop variable day (0-based, as in range)
    slot,                 \* index of `day_plan` in the day's plan (1-based)
    person_count,         \* local
    discount_amount,      \* local (0 until assigned)
    remaining_budget_per_day, \* local (0 until assigned)
    adjustment_needed,    \* local (0 until assigned)
    visited_restaurants,  \* local ledger
    visited_attractions,  \* local ledger
    ret                   \* the returned value, or NoValue

\* no value returned (yet, or ever when the call raises)
NoValue == [prefix |-> "none", hundredths |-> 0]

calcVars ==
    <<cost_options, locations_data, total_days, starting_budget, budget,
      budget_before, pc, loc, day, slot, person_count, discount_amount,
      remaining_budget_per_day, adjustment_needed, visited_restaurants,
      visited_attractions, ret>>

\* location['detailed_plan'][day] of the current location
CurrentPlan == locations_data[loc].detailed_plan[day + 1]

discount_day == total_days \div 4
vacation_day == total_days \div 3

is_discount_day == day = discount_day
is_vacation_day == day = vacation_day

(***************************************************************************)
(* calculate_budget: the dispatch on one slot.  The result is the set of   *)
(* outcomes the statement can have (several only when choice() samples):   *)
(* a KeyError, or a cost in dollars and the ledger that records it.        *)
(***************************************************************************)
KeyError == [raises |-> TRUE, cost |-> 0, ledger |-> "none"]

Deduct(cost, ledger) == [raises |-> FALSE, cost |-> cost, ledger |-> ledger]

\* a lookup that falls back to a tier the table knows
LookupOrDefault(table, key) ==
    IF key \in DOMAIN table THEN {table[key]}
    ELSE {table[CHOOSE k \in DOMAIN table : TRUE]}

\* table[key]: the value found, or nothing when the subscript raises KeyError
Lookup(table, key) == IF key \in DOMAIN table THEN {table[key]} ELSE {}

\* lines 99-144: the if/elif chain
Dispatch(day_plan, persons, opts) ==
    LET category == day_plan.content_category_name
        content == day_plan.content
    IN  IF category = "accommodation" THEN
            LET found == Lookup(hotel_costs, opts.hotel)
            IN  IF found = {} THEN {KeyError}
                ELSE {Deduct(price * persons, "none") : price \in found}
        ELSE IF category = "transport" /\ content = "rental picks up" THEN
            LET choices == IF opts.rental_car # "random"
                           THEN {opts.rental_car} ELSE RandomCarClasses
            IN  UNION {LET found == Lookup(rental_car_prices, car)
                       IN  IF found = {} THEN {KeyError}
                           ELSE {Deduct(price * day_plan.duration, "none") :
                                    price \in found}
                       : car \in choices}
        ELSE IF category = "transport" /\ content = "flight" THEN
            {Deduct(flight_costs * persons, "none")}
        ELSE IF category = "transport" /\ content = "train" THEN
            {Deduct(train_costs * persons, "none")}
        ELSE IF category = "transport" /\ content = "bus" THEN
            {Deduct(bus_costs * persons, "none")}
        ELSE IF category = "food" THEN
            LET found == Lookup(restaurant_costs, opts.restaurant)
            IN  IF found = {} THEN {KeyError}
                ELSE {Deduct(price * persons, "restaurant") : price \in found}
        ELSE IF category = "attraction" THEN
            LET found == Lookup(att_action_cost, opts.attraction)
            IN  IF found = {} THEN {KeyError}
                ELSE {Deduct(price * persons, "attraction") :
                        price \in UNION found}
        ELSE {Deduct(0, "none")}

\* a walk that never looks at already_slot
SlotOutcomesIgnoringFlag(day_plan, persons, opts) == Dispatch(day_plan, persons, opts)

\* lines 97-144: a slot already priced is skipped, any other is dispatched
SlotOutcomes(day_plan, persons, opts) ==
    IF day_plan.already_slot THEN {Deduct(0, "none")}
    ELSE Dispatch(day_plan, persons, opts)

\* the ledger update of the food and attraction branches
Record(ledger, cost, name) ==
    [spend |-> ledger.spend + cost, names |-> Append(ledger.names, name)]

(***************************************************************************)
(* calculate_budget: the statements after a day's slots.                   *)
(***************************************************************************)
\* a discount that ignores the city
DiscountAmountAnyCity(b, city) == TrueDiv(b, 20)

\* lines 149-152: the amount added on a discount or vacation day
DiscountAmount(b, city) ==
    LET twentieths == IF city \in discount_locations THEN 2 ELSE 1
    IN  TrueDiv(b * twentieths, 20)

\* the remaining budget per day without the clamp at zero
RemainingPerDayUnclamped(b, days_left) == TrueDiv(b, days_left)

\* lines 154-155
RemainingPerDay(b, days_left) == TrueDiv(Max(b, 0), days_left)

\* lines 157-159: the amount added when the remaining budget per day is
\* below the floor
AdjustmentNeeded(per_day) == Dollars(MinDailyBudget) - per_day

\* the return statement dedented out of the loops
ReturnAfterTheWalk == FALSE

\* line 161: the return statement stands inside the loop over the days
ReturnInsideDayLoop == TRUE

(***************************************************************************)
(* calculate_budget: the call.  Two families of arguments: one varies the  *)
(* first day's slots and the cost options, the other the budget, the day   *)
(* count, the city, the number of locations and the later days.            *)
(***************************************************************************)
Call(opts, n, td, p, c, b, first, later) ==
    /\ cost_options = opts
    /\ locations_data = LocationsData(n, td, p, c, first, later)
    /\ total_days = td
    /\ starting_budget = Dollars(b)
    /\ budget = Dollars(b)
    /\ budget_before = Dollars(b)
    /\ pc = "for_location"
    /\ loc = 0
    /\ day = 0
    /\ slot = 0
    /\ person_count = 0
    /\ discount_amount = 0
    /\ remaining_budget_per_day = 0
    /\ adjustment_needed = 0
    /\ visited_restaurants = [spend |-> 0, names |-> <<>>]
    /\ visited_attractions = [spend |-> 0, names |-> <<>>]
    /\ ret = NoValue

InitSlots ==
    \E opts \in GoodTierOptions \cup BadTierOptions, p \in 1..MaxPersons,
       first \in SeqsUpTo(AllSlots, MaxSlots) :
        \E td \in {1, MaxDays} : Call(opts, 1, td, p, "Paris", 400, first, <<>>)

InitWalk ==
    \E opts \in GoodTierOptions, n \in {0, 1, MaxLocations}, td \in 0..MaxDays,
       p \in 1..MaxPersons, c \in Cities, b \in StartBudgets,
       first \in SeqsUpTo(FewSlots, MaxSlots), later \in LaterDayPlans :
        Call(opts, n, td, p, c, b, first, later)

(***************************************************************************)
(* calculate_budget: one action per statement group.                       *)
(***************************************************************************)
Locals == <<person_count, discount_amount, remaining_budget_per_day, adjustment_needed>>
Ledgers == <<visited_restaurants, visited_attractions>>
Arguments == <<cost_options, locations_data, total_days, starting_budget>>

\* lines 91-92: the next location, if any
ForLocation ==
    /\ pc = "for_location"
    /\ loc < Len(locations_data)
    /\ loc' = loc + 1
    /\ person_count' = locations_data[loc + 1].persons
    /\ day' = 0
    /\ pc' = "for_day"
    /\ budget_before' = budget
    /\ UNCHANGED <<Arguments, budget, slot, discount_amount,
                   remaining_budget_per_day, adjustment_needed, Ledgers, ret>>

\* line 163: the return after the loop over the locations
ReturnAfterLoops ==
    /\ pc = "for_location"
    /\ loc >= Len(locations_data)
    /\ ret' = format_cost(budget)
    /\ pc' = "done"
    /\ budget_before' = budget
    /\ UNCHANGED <<Arguments, budget, loc, day, slot, Locals, Ledgers>>

\* line 94: the next day of range(total_days), if any
ForDay ==
    /\ pc = "for_day"
    /\ IF day < total_days
       THEN /\ slot' = 1
            /\ pc' = "for_slot"
       ELSE /\ slot' = slot
            /\ pc' = "for_location"
    /\ budget_before' = budget
    /\ UNCHANGED <<Arguments, budget, loc, day, Locals, Ledgers, ret>>

\* lines 96-144: one slot of the day's plan
ForSlot ==
    /\ pc = "for_slot"
    /\ slot <= Len(CurrentPlan)
    /\ \E o \in SlotOutcomes(CurrentPlan[slot], person_count, cost_options) :
        /\ budget' = IF o.raises THEN budget ELSE budget - Dollars(o.cost)
        /\ pc' = IF o.raises THEN "raised" ELSE "for_slot"
        /\ visited_restaurants' =
              IF o.ledger = "restaurant"
              THEN Record(visited_restaurants, o.cost, CurrentPlan[slot].content)
              ELSE visited_restaurants
        /\ visited_attractions' =
              IF o.ledger = "attraction"
              THEN Record(visited_attractions, o.cost, CurrentPlan[slot].content)
              ELSE visited_attractions
    /\ slot' = slot + 1
    /\ budget_before' = budget
    /\ UNCHANGED <<Arguments, loc, day, Locals, ret>>

\* lines 146-152: the discount of a discount day or vacation day
Discount ==
    /\ pc = "for_slot"
    /\ slot > Len(CurrentPlan)
    /\ IF is_discount_day \/ is_vacation_day
       THEN /\ discount_amount' = DiscountAmount(budget, locations_data[loc].city)
            /\ budget' = budget + discount_amount'
       ELSE UNCHANGED <<discount_amount, budget>>
    /\ pc' = "floor"
    /\ budget_before' = budget
    /\ UNCHANGED <<Arguments, loc, day, slot, person_count,
                   remaining_budget_per_day, adjustment_needed, Ledgers, ret>>

\* lines 154-159: the floor on the remaining budget per day
Floor ==
    /\ pc = "floor"
    /\ remaining_budget_per_day' = RemainingPerDay(budget, total_days - day)
    /\ IF remaining_budget_per_day' < Dollars(MinDailyBudget)
       THEN /\ adjustment_needed' = AdjustmentNeeded(remaining_budget_per_day')
            /\ budget' = budget + adjustment_needed' * person_count
       ELSE UNCHANGED <<adjustment_needed, budget>>
    /\ pc' = "end_of_day"
    /\ budget_before' = budget
    /\ UNCHANGED <<Arguments, loc, day, slot, person_count, discount_amount,
                   Ledgers, ret>>

\* line 161: the return that ends the day's block
EndOfDay ==
    /\ pc = "end_of_day"
    /\ IF ReturnInsideDayLoop
       THEN /\ ret' = format_cost(budget)
            /\ pc' = "done"
            /\ day' = day
       ELSE /\ ret' = ret
            /\ pc' = "for_day"
            /\ day' = day + 1
    /\ budget_before' = budget
    /\ UNCHANGED <<Arguments, budget, loc, slot, Locals, Ledgers>>

(***************************************************************************)
(* calculate_budget: what the claims speak of.                             *)
(***************************************************************************)
\* the slots of day 0 of the first location (none without a location or a day)
FirstDayPlan ==
    IF Len(locations_data) >= 1 /\ total_days >= 1
    THEN locations_data[1].detailed_plan[1]
    ELSE <<>>

\* the deduction the price list of the contract gives a slot, in dollars: one
\* amount, or one per price point a 'random' tier can resolve to
ListedDeductions(s, persons, opts) ==
    LET cat == s.content_category_name
    IN  CASE s.already_slot -> {0}
          [] ~s.already_slot /\ cat = "accommodation" ->
                {hotel_costs[t] * persons : t \in {opts.hotel} \cap DOMAIN hotel_costs}
          [] ~s.already_slot /\ cat = "transport" /\ s.content = "rental picks up" ->
                {rental_car_prices[t] * s.duration :
                    t \in IF opts.rental_car = "random" THEN RandomCarClasses
                          ELSE {opts.rental_car} \cap DOMAIN rental_car_prices}
          [] ~s.already_slot /\ cat = "transport" /\ s.content = "flight" -> {150 * persons}
          [] ~s.already_slot /\ cat = "transport" /\ s.content = "train" -> {100 * persons}
          [] ~s.already_slot /\ cat = "transport" /\ s.content = "bus" -> {30 * persons}
          [] ~s.already_slot /\ cat = "food" ->
                {restaurant_costs[t] * persons :
                    t \in {opts.restaurant} \cap DOMAIN restaurant_costs}
          [] ~s.already_slot /\ cat = "attraction" ->
                {c * persons :
                    c \in UNION {att_action_cost[t] :
                                    t \in {opts.attraction} \cap DOMAIN att_action_cost}}
          [] OTHER -> {0}

\* the totals the price list gives a sequence of slots
RECURSIVE ListedTotals(_, _, _)
ListedTotals(plan, persons, opts) ==
    IF plan = <<>> THEN {0}
    ELSE {a + b : a \in ListedDeductions(Head(plan), persons, opts),
                  b \in ListedTotals(Tail(plan), persons, opts)}

\* C1: while the slots of the processed day are walked, and when they are all
\* done and before the discount and the floor, the budget is the starting
\* budget minus the listed deductions of the slots walked so far, whatever
\* its sign: a slot already priced or of no priced kind deducts nothing.
C1_SlotDeductions ==
    pc = "for_slot" =>
        starting_budget - budget \in
            {Dollars(t) : t \in ListedTotals(SubSeq(CurrentPlan, 1, slot - 1),
                                            person_count, cost_options)}

\* C1 happens: a day of MaxSlots slots, one of them already priced, has been
\* walked to its end and has driven the budget below zero
C1_Witness ==
    /\ pc = "for_slot"
    /\ slot > Len(CurrentPlan)
    /\ Len(CurrentPlan) = MaxSlots
    /\ \E i \in 1..Len(CurrentPlan) : CurrentPlan[i].already_slot
    /\ budget < 0

\* the value the first day alone determines, for a total of deductions t
FirstDayValue(start, t, td, persons, city) ==
    LET after == start - Dollars(t)
        discounted == IF 0 = td \div 4 \/ 0 = td \div 3
                      THEN after + DiscountAmount(after, city) ELSE after
        per_day == RemainingPerDay(discounted, td)
        floored == IF per_day < Dollars(MinDailyBudget)
                   THEN discounted + AdjustmentNeeded(per_day) * persons
                   ELSE discounted
    IN  format_cost(floored)

\* C2: a call with a location and a day returns during day 0 of the first
\* location, and the value returned is determined by that location's persons
\* and city, the slots of its day 0, total_days, the starting budget and
\* the cost options: no later day and no later location enters it.
C2_FirstDayOnly ==
    (pc = "done" /\ Len(locations_data) >= 1 /\ total_days >= 1) =>
        /\ loc = 1
        /\ day = 0
        /\ ret \in {FirstDayValue(starting_budget, t, total_days,
                                  locations_data[1].persons, locations_data[1].city) :
                      t \in ListedTotals(FirstDayPlan, locations_data[1].persons,
                                         cost_options)}

\* C2 happens: a call returned although later days and a later location
\* hold priced slots
C2_Witness ==
    /\ pc = "done"
    /\ ret # NoValue
    /\ total_days >= 2
    /\ Len(locations_data) >= 2
    /\ locations_data[1].detailed_plan[2] # <<>>
    /\ locations_data[2].detailed_plan[1] # <<>>

\* the day the walk is on is the discount day or the vacation day
OnDiscountDay == is_discount_day \/ is_vacation_day

\* C3 as stated: on a discount or vacation day the adjustment is 10% or 5% of
\* the budget and is positive, for every budget reached; on other days there
\* is none.
C3_Original ==
    pc = "floor" =>
        IF OnDiscountDay
        THEN /\ 20 * (budget - budget_before) =
                  budget_before * (IF locations_data[loc].city \in discount_locations
                                   THEN 2 ELSE 1)
             /\ budget > budget_before
        ELSE budget = budget_before

\* C3 amended: the adjustment is 10% or 5% of the budget and has the sign of
\* the budget: positive above zero, none at zero, a further decrease below.
C3_SignedDiscount ==
    pc = "floor" =>
        IF OnDiscountDay
        THEN /\ 20 * (budget - budget_before) =
                  budget_before * (IF locations_data[loc].city \in discount_locations
                                   THEN 2 ELSE 1)
             /\ (budget > budget_before) = (budget_before > 0)
             /\ (budget < budget_before) = (budget_before < 0)
        ELSE budget = budget_before

\* C3 happens: the discount ran on a budget the day's slots drove below zero
C3_Witness ==
    /\ pc = "floor"
    /\ OnDiscountDay
    /\ budget_before < 0
    /\ budget < budget_before

\* C4 as stated: after the floor step the budget per remaining day is at
\* least the floor.
C4_Original ==
    pc = "end_of_day" => budget >= Dollars(MinDailyBudget) * (total_days - day)

\* C4 amended: with r = max(budget, 0) / (total_days - day), the step adds
\* (100 - r) * persons, a positive amount, when r < 100 and nothing otherwise;
\* the budget per remaining day reaches 100 when the budget was not negative
\* and there are at least as many persons as remaining days.
C4_TopUp ==
    pc = "end_of_day" =>
        LET left == total_days - day
            clamped == Max(budget_before, 0)
        IN  /\ IF clamped < Dollars(100) * left
               THEN /\ left * (budget - budget_before) =
                          (Dollars(100) * left - clamped) * person_count
                    /\ budget > budget_before
               ELSE budget = budget_before
            /\ (budget_before >= 0 /\ person_count >= left) =>
                    budget >= Dollars(100) * left

\* C4 happens: the top-up ran and left the budget per remaining day below
\* the floor
C4_Witness ==
    /\ pc = "end_of_day"
    /\ budget > budget_before
    /\ budget < Dollars(MinDailyBudget) * (total_days - day)

\* a tier of the cost options is outside the enumerated set of its category
HasBadTier ==
    \/ cost_options.hotel \notin DOMAIN hotel_costs
    \/ cost_options.restaurant \notin DOMAIN restaurant_costs
    \/ cost_options.attraction \notin DOMAIN att_action_cost
    \/ cost_options.rental_car \notin DOMAIN rental_car_prices \cup {"random"}

\* slot s is priced by a tier that is outside its category's set
NeedsBadTier(s) ==
    /\ ~s.already_slot
    /\ \/ s.content_category_name = "accommodation"
          /\ cost_options.hotel \notin DOMAIN hotel_costs
       \/ s.content_category_name = "food"
          /\ cost_options.restaurant \notin DOMAIN restaurant_costs
       \/ s.content_category_name = "attraction"
          /\ cost_options.attraction \notin DOMAIN att_action_cost
       \/ s.content_category_name = "transport" /\ s.content = "rental picks up"
          /\ cost_options.rental_car \notin DOMAIN rental_car_prices \cup {"random"}

\* C7 as stated: with a bad tier the call never returns a budget string,
\* whatever the itinerary.
C7_Original == HasBadTier => ret = NoValue

\* C7 amended: the call ends in a lookup error, returning nothing, exactly
\* when day 0 of the first location holds a slot, not already priced, of a
\* category whose tier is bad; otherwise it returns a budget string.
C7_ErrorOnlyWhenPriced ==
    pc \in {"done", "raised"} =>
        /\ (pc = "raised") = (\E i \in 1..Len(FirstDayPlan) : NeedsBadTier(FirstDayPlan[i]))
        /\ (ret = NoValue) = (pc = "raised")

\* C7 happens: a call with a bad tier returned a budget string
C7_Witness == pc = "done" /\ HasBadTier /\ ret # NoValue

(***************************************************************************)
(* BudgetEstimator: the class tables and the inputs.  Money is in cents,   *)
(* a multiplier in hundredths, a percentage in hundredths of a percent.    *)
(***************************************************************************)
BudgetConstraintsTable ==
    [budget |-> [min |-> 50, max |-> 150],
     moderate |-> [min |-> 150, max |-> 300],
     luxury |-> [min |-> 300, max |-> 1000]]

CityCostMultipliersTable ==
    ("New York" :> 180) @@ ("London" :> 170) @@ ("Tokyo" :> 160) @@
    ("Paris" :> 150) @@ ("Sydney" :> 140) @@ ("Singapore" :> 130) @@
    ("Bangkok" :> 40) @@ ("Hanoi" :> 30) @@ ("Mumbai" :> 25)

\* the weights of estimate_daily_budget, in hundredths
category_weights ==
    [transportation |-> 20, accommodation |-> 35, dining |-> 25,
     activities |-> 15, shopping |-> 3, miscellaneous |-> 2]

\* the travel styles an estimator is constructed with; the last is none of
\* the styles of BUDGET_CONSTRAINTS
TravelStyles == {"budget", "moderate", "luxury", "backpacker"}

Currencies == {"USD", "EUR"}

\* the cities estimate_daily_budget is called with; the last is not listed
\* in CITY_COST_MULTIPLIERS
DailyCities == {"Tokyo", "Mumbai", "New York", "Kyoto"}

EmptyDict == [k \in {} |-> 0]

\* the entries an itinerary is built from: dicts with all keys, with the
\* city alone, without a city, and with no key
ItineraryEntries ==
    {[city |-> "Tokyo", duration |-> 3, num_people |-> 2],
     [city |-> "Tokyo"],
     [city |-> "Mumbai", duration |-> 2, num_people |-> 1],
     [city |-> "Kyoto", duration |-> 2, num_people |-> 3],
     [duration |-> 2, num_people |-> 2],
     EmptyDict}

Itineraries == SeqsUpTo(ItineraryEntries, MaxEntries)

\* current budgets and target bounds of suggest_budget_adjustments, in cents
CurrentBudgets == {-5000, 0, 10000, 25000, 40000}
TargetBounds == {-10000, 20000, 30000}

\* dict.get(key, default)
Get(d, key, default) == IF key \in DOMAIN d THEN d[key] ELSE default

\* str.capitalize() of the travel styles
Capitalize(style) ==
    CASE style = "budget" -> "Budget"
      [] style = "moderate" -> "Moderate"
      [] style = "luxury" -> "Luxury"
      [] style = "backpacker" -> "Backpacker"

(***************************************************************************)
(* BudgetEstimator: the state of one estimator and of its caller.          *)
(***************************************************************************)
VARIABLES
    travel_style,            \* self.travel_style
    currency,                \* self.currency
    daily_estimates,         \* self.daily_estimates
    BUDGET_CONSTRAINTS,      \* class attribute
    CITY_COST_MULTIPLIERS,   \* class attribute
    constructed,             \* history: the arguments of __init__
    phase,                   \* "idle", or "returned" after a call
    last_call,               \* the method called last and its arguments
    last_result,             \* what that call returned or raised
    memo                     \* history: an earlier estimate_daily_budget call

estVars ==
    <<travel_style, currency, daily_estimates, BUDGET_CONSTRAINTS,
      CITY_COST_MULTIPLIERS, constructed, phase, last_call, last_result, memo>>

NoCall == [method |-> "none"]
NoMemo == [method |-> "none"]

Returned(value) == [raised |-> "", value |-> value]
Raised(exception) == [raised |-> exception, value |-> EmptyDict]

(***************************************************************************)
(* BudgetEstimator.estimate_daily_budget                                   *)
(***************************************************************************)
\* lines 66-67: adjusted_budget, in two-hundredths of a dollar (base_budget
\* is half of min + max, the multiplier is in hundredths)
AdjustedBudget(constraints, multiplier, num_people) ==
    (constraints.min + constraints.max) * multiplier * num_people

\* per_person computed without the division by num_people
PerPersonOfGroup(adjusted, num_people) == RoundDiv(adjusted, 2)

\* line 84: round(adjusted_budget / num_people, 2), in cents
PerPerson(adjusted, num_people) == RoundDiv(adjusted, 2 * num_people)

\* lines 58-86, for num_people >= 1
EstimateDailyBudget(style, constraints_table, multipliers, city, num_people) ==
    LET constraints == Get(constraints_table, style, constraints_table["moderate"])
        multiplier == Get(multipliers, city, 100)
        adjusted == AdjustedBudget(constraints, multiplier, num_people)
    IN  [c \in DOMAIN category_weights |-> RoundDiv(adjusted * category_weights[c], 200)]
        @@ [total |-> RoundDiv(adjusted, 2),
            per_person |-> PerPerson(adjusted, num_people)]

\* an estimate_daily_budget that keeps its result in self.daily_estimates
DailyEstimatesCached(estimates, city, breakdown) == (city :> breakdown) @@ estimates

\* self.daily_estimates after estimate_daily_budget: the method writes no
\* attribute
DailyEstimatesAfter(estimates, city, breakdown) == estimates

(***************************************************************************)
(* BudgetEstimator.estimate_total_budget                                   *)
(***************************************************************************)
\* city_totals[city] = day_total, losing what the city had
SetCityTotal(city_totals, city, day_total) ==
    IF city \in DOMAIN city_totals
    THEN [city_totals EXCEPT ![city] = day_total]
    ELSE (city :> day_total) @@ city_totals

\* line 117: city_totals[city] += day_total on a defaultdict(float)
AddCityTotal(city_totals, city, day_total) ==
    IF city \in DOMAIN city_totals
    THEN [city_totals EXCEPT ![city] = @ + day_total]
    ELSE (city :> day_total) @@ city_totals

\* lines 103-118: the body of the loop over the itinerary
TotalLoopBody(acc, day_plan, style, constraints_table, multipliers) ==
    LET city == Get(day_plan, "city", "Unknown")
        num_days == Get(day_plan, "duration", 1)
        num_people == Get(day_plan, "num_people", 1)
        daily_estimate == EstimateDailyBudget(style, constraints_table, multipliers,
                                              city, num_people)
        day_total == daily_estimate.total * num_days
    IN  [total_budget |-> acc.total_budget + day_total,
         daily_breakdowns |->
            Append(acc.daily_breakdowns,
                   [city |-> city, days |-> num_days,
                    daily_budget |-> daily_estimate.total,
                    total_for_stay |-> day_total]),
         city_totals |-> AddCityTotal(acc.city_totals, city, day_total),
         city_order |-> IF city \in DOMAIN acc.city_totals THEN acc.city_order
                        ELSE Append(acc.city_order, city)]

\* lines 98-118: the accumulators after the entries from index i on;
\* city_order is the insertion order of the dict city_totals
RECURSIVE TotalLoop(_, _, _, _, _, _)
TotalLoop(acc, itinerary, i, style, constraints_table, multipliers) ==
    IF i > Len(itinerary) THEN acc
    ELSE TotalLoop(TotalLoopBody(acc, itinerary[i], style, constraints_table, multipliers),
                   itinerary, i + 1, style, constraints_table, multipliers)

\* lines 98-126
EstimateTotalBudget(style, cur, constraints_table, multipliers, itinerary) ==
    LET acc == TotalLoop([total_budget |-> 0, daily_breakdowns |-> <<>>,
                          city_totals |-> EmptyDict, city_order |-> <<>>],
                         itinerary, 1, style, constraints_table, multipliers)
    IN  [total_budget |-> RoundDiv(acc.total_budget, 1),
         currency |-> cur,
         daily_breakdowns |-> acc.daily_breakdowns,
         city_totals |-> acc.city_totals,
         city_order |-> acc.city_order,
         travel_style |-> style]

(***************************************************************************)
(* BudgetEstimator.suggest_budget_adjustments                              *)
(***************************************************************************)
\* lines 144-151 and 153-160: one suggestion with an amount, or the
\* ZeroDivisionError of difference / current_budget
Adjustment(type, difference, current_budget) ==
    IF current_budget = 0 THEN Raised("ZeroDivisionError")
    ELSE Returned(<<[type |-> type,
                     amount |-> RoundDiv(difference, 1),
                     percentage |-> RoundDiv(difference * 10000, current_budget)]>>)

\* lines 140-171
SuggestBudgetAdjustments(current_budget, min_target, max_target) ==
    LET suggestions ==
            IF current_budget < min_target
            THEN Adjustment("increase", min_target - current_budget, current_budget)
            ELSE IF current_budget > max_target
            THEN Adjustment("decrease", current_budget - max_target, current_budget)
            ELSE Returned(<<[type |-> "optimal"]>>)
    IN  IF suggestions.raised # "" THEN suggestions
        ELSE Returned([current_budget |-> current_budget,
                       target_range |-> <<min_target, max_target>>,
                       suggestions |-> suggestions.value])

(***************************************************************************)
(* BudgetEstimator.generate_budget_report: the lines of the report, each   *)
(* kept as its label and the values it prints.                             *)
(***************************************************************************)
GenerateBudgetReport(style, cur, constraints_table, multipliers, itinerary) ==
    LET budget_data == EstimateTotalBudget(style, cur, constraints_table,
                                           multipliers, itinerary)
    IN  <<  <<"Travel Style", Capitalize(style)>>,
            <<"Currency", cur>>,
            <<"TOTAL ESTIMATED BUDGET", cur, budget_data.total_budget>>,
            <<"CITY BREAKDOWN",
              [i \in DOMAIN budget_data.city_order |->
                  <<budget_data.city_order[i], cur,
                    budget_data.city_totals[budget_data.city_order[i]]>>]>>,
            <<"DAILY BREAKDOWN",
              [i \in DOMAIN budget_data.daily_breakdowns |->
                  <<budget_data.daily_breakdowns[i].city,
                    budget_data.daily_breakdowns[i].days, cur,
                    budget_data.daily_breakdowns[i].total_for_stay>>]>>,
            <<"Report generated using", "BudgetEstimator">>  >>

(***************************************************************************)
(* BudgetEstimator: construction and one action per method call.           *)
(***************************************************************************)
\* lines 34-44
Construct(style, cur) ==
    /\ travel_style = style
    /\ currency = cur
    /\ daily_estimates = EmptyDict
    /\ BUDGET_CONSTRAINTS = BudgetConstraintsTable
    /\ CITY_COST_MULTIPLIERS = CityCostMultipliersTable
    /\ constructed = [travel_style |-> style, currency |-> cur]
    /\ phase = "idle"
    /\ last_call = NoCall
    /\ last_result = Returned(EmptyDict)
    /\ memo = NoMemo

Tables == <<BUDGET_CONSTRAINTS, CITY_COST_MULTIPLIERS>>
Fields == <<travel_style, currency>>

CallEstimateDailyBudget ==
    /\ phase = "idle"
    /\ \E city \in DailyCities, num_people \in 1..MaxPersons :
        LET breakdown == EstimateDailyBudget(travel_style, BUDGET_CONSTRAINTS,
                                             CITY_COST_MULTIPLIERS, city, num_people)
        IN  /\ last_call' = [method |-> "estimate_daily_budget", city |-> city,
                             num_people |-> num_people]
            /\ last_result' = Returned(breakdown)
            /\ daily_estimates' = DailyEstimatesAfter(daily_estimates, city, breakdown)
    /\ phase' = "returned"
    /\ UNCHANGED <<Fields, Tables, constructed, memo>>

CallEstimateTotalBudget ==
    /\ phase = "idle"
    /\ \E itinerary \in Itineraries :
        /\ last_call' = [method |-> "estimate_total_budget", itinerary |-> itinerary]
        /\ last_result' = Returned(EstimateTotalBudget(travel_style, currency,
                                BUDGET_CONSTRAINTS, CITY_COST_MULTIPLIERS, itinerary))
    /\ phase' = "returned"
    /\ UNCHANGED <<Fields, daily_estimates, Tables, constructed, memo>>

CallSuggestBudgetAdjustments ==
    /\ phase = "idle"
    /\ \E current_budget \in CurrentBudgets, min_target, max_target \in TargetBounds :
        /\ last_call' = [method |-> "suggest_budget_adjustments",
                         current_budget |-> current_budget,
                         min_target |-> min_target, max_target |-> max_target]
        /\ last_result' = SuggestBudgetAdjustments(current_budget, min_target, max_target)
    /\ phase' = "returned"
    /\ UNCHANGED <<Fields, daily_estimates, Tables, constructed, memo>>

CallGenerateBudgetReport ==
    /\ phase = "idle"
    /\ \E itinerary \in Itineraries :
        /\ last_call' = [method |-> "generate_budget_report", itinerary |-> itinerary]
        /\ last_result' = Returned(GenerateBudgetReport(travel_style, currency,
                                BUDGET_CONSTRAINTS, CITY_COST_MULTIPLIERS, itinerary))
    /\ phase' = "returned"
    /\ UNCHANGED <<Fields, daily_estimates, Tables, constructed, memo>>

\* the caller takes the result (or catches the exception) and goes on; it
\* may keep the result of an estimate_daily_budget call to compare a later
\* one with
CallerContinues ==
    /\ phase = "returned"
    /\ phase' = "idle"
    /\ \/ memo' = memo
       \/ /\ last_call.method = "estimate_daily_budget"
          /\ memo' = [method |-> "estimate_daily_budget", city |-> last_call.city,
                      num_people |-> last_call.num_people, result |-> last_result]
    /\ last_call' = NoCall
    /\ last_result' = Returned(EmptyDict)
    /\ UNCHANGED <<Fields, daily_estimates, Tables, constructed>>

(***************************************************************************)
(* BudgetEstimator: what the claims speak of.                              *)
(***************************************************************************)
RECURSIVE SumOver(_, _)
SumOver(f, S) ==
    IF S = {} THEN 0
    ELSE LET x == CHOOSE y \in S : TRUE IN f[x] + SumOver(f, S \ {x})

JustReturned(method) == phase = "returned" /\ last_call.method = method

\* C5 as stated: every call returns one suggestion: 'increase' by
\* min - current below the range (also when min > max and current lies
\* between them), 'decrease' by current - max above it, 'optimal' with no
\* amount otherwise.
C5_Original ==
    JustReturned("suggest_budget_adjustments") =>
        /\ last_result.raised = ""
        /\ Len(last_result.value.suggestions) = 1
        /\ LET s == last_result.value.suggestions[1]
               c == last_call.current_budget
           IN  IF c < last_call.min_target
               THEN s.type = "increase" /\ s.amount = last_call.min_target - c
               ELSE IF c > last_call.max_target
               THEN s.type = "decrease" /\ s.amount = c - last_call.max_target
               ELSE s.type = "optimal" /\ "amount" \notin DOMAIN s

\* what is left of C5 for the calls that do return
SuggestionWhenReturned ==
    (JustReturned("suggest_budget_adjustments") /\ last_result.raised = "") =>
        /\ Len(last_result.value.suggestions) = 1
        /\ LET s == last_result.value.suggestions[1]
               c == last_call.current_budget
           IN  IF c < last_call.min_target
               THEN s.type = "increase" /\ s.amount = last_call.min_target - c
               ELSE IF c > last_call.max_target
               THEN s.type = "decrease" /\ s.amount = c - last_call.max_target
               ELSE s.type = "optimal" /\ "amount" \notin DOMAIN s

\* C6: after estimate_daily_budget(city, num_people), total is per_person
\* times num_people, the weights sum to 1.0 (100 hundredths), and total is
\* (min + max) / 2 of the style's constraints (of 'moderate' for an unknown
\* style) times the city's multiplier (1.0 for an unlisted city) times
\* num_people, rounded to cents.
C6_TotalIsPerPersonTimesPeople ==
    JustReturned("estimate_daily_budget") =>
        LET r == last_result.value
            n == last_call.num_people
            c == IF constructed.travel_style \in DOMAIN BudgetConstraintsTable
                 THEN BudgetConstraintsTable[constructed.travel_style]
                 ELSE BudgetConstraintsTable["moderate"]
            m == IF last_call.city \in DOMAIN CityCostMultipliersTable
                 THEN CityCostMultipliersTable[last_call.city] ELSE 100
        IN  /\ r.total = r.per_person * n
            /\ SumOver(category_weights, DOMAIN category_weights) = 100
            /\ r.total = RoundDiv((c.min + c.max) * m * n, 2)

\* C6 happens: two moderate travellers in Mumbai, where a person's share
\* has a half cent once halved again
C6_Witness ==
    /\ JustReturned("estimate_daily_budget")
    /\ travel_style = "moderate"
    /\ last_call.city = "Mumbai"
    /\ last_call.num_people = 2
    /\ last_result.value.per_person = 5625

\* C8 as stated: suggest_budget_adjustments raises nothing, whatever the
\* current budget and the target range.
C8_Original ==
    JustReturned("suggest_budget_adjustments") => last_result.raised = ""

\* C9: no call changes the estimator's travel_style, currency or
\* daily_estimates or the class tables, and an estimate_daily_budget call
\* returns what an earlier call with the same city and num_people returned,
\* whatever was called in between.
C9_NoHiddenState ==
    /\ travel_style = constructed.travel_style
    /\ currency = constructed.currency
    /\ daily_estimates = EmptyDict
    /\ BUDGET_CONSTRAINTS = BudgetConstraintsTable
    /\ CITY_COST_MULTIPLIERS = CityCostMultipliersTable
    /\ (/\ JustReturned("estimate_daily_budget")
        /\ memo.method = "estimate_daily_budget"
        /\ memo.city = last_call.city
        /\ memo.num_people = last_call.num_people)
       => last_result = memo.result

\* C9 happens: estimate_daily_budget returned for arguments an earlier call
\* was made with
C9_Witness ==
    /\ JustReturned("estimate_daily_budget")
    /\ memo.method = "estimate_daily_budget"
    /\ memo.city = last_call.city
    /\ memo.num_people = last_call.num_people
    /\ last_result.value.total > 0

\* C10: after estimate_total_budget(itinerary), daily_breakdowns follows the
\* itinerary entry by entry with total_for_stay = daily_budget * days,
\* city_totals holds for each city (or 'Unknown') the sum of its stays, and
\* total_budget is the sum of city_totals and of all stays; an empty
\* itinerary gives 0 and empty breakdowns.
C10_TotalsAddUp ==
    JustReturned("estimate_total_budget") =>
        LET it == last_call.itinerary
            r == last_result.value
            db == r.daily_breakdowns
            stay == [i \in DOMAIN db |-> db[i].total_for_stay]
        IN  /\ Len(db) = Len(it)
            /\ \A i \in DOMAIN db :
                /\ db[i].city = (IF "city" \in DOMAIN it[i] THEN it[i].city ELSE "Unknown")
                /\ db[i].days = (IF "duration" \in DOMAIN it[i] THEN it[i].duration ELSE 1)
                /\ db[i].total_for_stay = db[i].daily_budget * db[i].days
            /\ DOMAIN r.city_totals = {db[i].city : i \in DOMAIN db}
            /\ \A c \in DOMAIN r.city_totals :
                r.city_totals[c] = SumOver(stay, {i \in DOMAIN db : db[i].city = c})
            /\ r.total_budget = SumOver(r.city_totals, DOMAIN r.city_totals)
            /\ r.total_budget = SumOver(stay, DOMAIN db)
            /\ it = <<>> => r.total_budget = 0 /\ db = <<>> /\ r.city_totals = EmptyDict

\* C10 happens: an itinerary that comes back to a city and has an entry
\* without a city
C10_Witness ==
    /\ JustReturned("estimate_total_budget")
    /\ \E i, j \in DOMAIN last_call.itinerary :
        /\ i < j
        /\ "city" \in DOMAIN last_call.itinerary[i]
        /\ "city" \in DOMAIN last_call.itinerary[j]
        /\ last_call.itinerary[i].city = last_call.itinerary[j].city
        /\ last_call.itinerary[i] # last_call.itinerary[j]
    /\ \E i \in DOMAIN last_call.itinerary : "city" \notin DOMAIN last_call.itinerary[i]
    /\ "Unknown" \in DOMAIN last_result.value.city_totals
    /\ last_result.value.total_budget > 0

(***************************************************************************)
(* The specifications.                                                     *)
(***************************************************************************)
\* calculate_budget, beside an estimator nobody calls
Init ==
    /\ InitSlots \/ InitWalk
    /\ Construct("moderate", "USD")

Next ==
    \/ ForLocation /\ UNCHANGED estVars
    \/ ReturnAfterLoops /\ UNCHANGED estVars
    \/ ForDay /\ UNCHANGED estVars
    \/ ForSlot /\ UNCHANGED estVars
    \/ Discount /\ UNCHANGED estVars
    \/ Floor /\ UNCHANGED estVars
    \/ EndOfDay /\ UNCHANGED estVars

vars == <<calcVars, estVars>>

Spec == Init /\ [][Next]_vars

\* one BudgetEstimator and its caller, beside a calculate_budget never run
InitEstimator ==
    /\ \E style \in TravelStyles, cur \in Currencies : Construct(style, cur)
    /\ Call(DefaultOptions, 0, 0, 1, "Paris", 0, <<>>, <<>>)

NextEstimator ==
    \/ CallEstimateDailyBudget /\ UNCHANGED calcVars
    \/ CallEstimateTotalBudget /\ UNCHANGED calcVars
    \/ CallSuggestBudgetAdjustments /\ UNCHANGED calcVars
    \/ CallGenerateBudgetReport /\ UNCHANGED calcVars
    \/ CallerContinues /\ UNCHANGED calcVars

SpecEstimator == InitEstimator /\ [][NextEstimator]_vars

====
